---- MODULE Spec2Model ----
(***************************************************************************)
(* A model of asciimatics/parsers.py: the three text parsers               *)
(* (ControlCodeParser, AsciimaticsParser, AnsiTerminalParser) behind the   *)
(* Parser contract (reset, cursor, parse, normalize).                      *)
(*                                                                         *)
(* A Python string is a sequence of character codes (ord), so that the     *)
(* dispatch on ord(text[0]), the regular expressions and int()/format()    *)
(* are computed on characters, as the code computes them.                  *)
(***************************************************************************)
EXTENDS Integers, Sequences, FiniteSets, TLC

VARIABLES parser, raw_text, attributes, cursor, result, st, pc, ret, seen

vars == <<parser, raw_text, attributes, cursor, result, st, pc, ret, seen>>

-----------------------------------------------------------------------------
(* Bounds of the model *)

\* Longest input of the ControlCodeParser, in characters.
MaxControlLen == 4

\* Most tokens (literal characters or ${..} sequences) in an AsciimaticsParser input.
MaxMarkupTokens == 4

\* Most tokens (characters or escape sequences) in an AnsiTerminalParser input.
MaxAnsiTokens == 3

-----------------------------------------------------------------------------
(* Python values *)

\* Python's None, where an integer may stand (a colour, a style): an integer
\* that no colour, style or parsed parameter of the model takes.
None == -1

\* None where a glyph (a non-empty string) may stand.
NoGlyph == << >>

\* colours=None given to reset (falsy, like the empty tuple).
NoColours == << >>

\* No value returned by normalize() yet.
NoRet == << -1 >>

\* asciimatics.constants
COLOUR_BLACK == 0
COLOUR_WHITE == 7
A_BOLD == 1
A_NORMAL == 2
A_REVERSE == 3

Max(a, b) == IF a > b THEN a ELSE b
Min(a, b) == IF a < b THEN a ELSE b

\* The index i of a slice bound, as Python clamps it to a list of length n.
ClampIndex(i, n) == IF i < 0 THEN Max(n + i, 0) ELSE Min(i, n)

\* L[:i]
SliceTo(L, i) == SubSeq(L, 1, ClampIndex(i, Len(L)))

\* L[i:]
SliceFrom(L, i) == SubSeq(L, ClampIndex(i, Len(L)) + 1, Len(L))

\* L[i:j] = new
SliceAssign(L, i, j, new) ==
    LET lo == ClampIndex(i, Len(L))
        hi == Max(ClampIndex(j, Len(L)), lo)
    IN  SubSeq(L, 1, lo) \o new \o SubSeq(L, hi + 1, Len(L))

\* str.isspace() on the characters int() strips.
IsSpace(c) == c \in {9, 10, 11, 12, 13, 28, 29, 30, 31, 32}

IsDigit(c) == c \in 48..57

RECURSIVE Strip(_)
Strip(s) ==
    IF s = << >> THEN s
    ELSE IF IsSpace(s[1]) THEN Strip(Tail(s))
    ELSE IF IsSpace(s[Len(s)]) THEN Strip(SubSeq(s, 1, Len(s) - 1))
    ELSE s

AllDigits(s) == Len(s) > 0 /\ \A i \in 1..Len(s) : IsDigit(s[i])

RECURSIVE DigitsValue(_)
DigitsValue(s) ==
    IF s = << >> THEN 0
    ELSE 10 * DigitsValue(SubSeq(s, 1, Len(s) - 1)) + (s[Len(s)] - 48)

\* int(s) succeeds: optional blanks, an optional sign, then decimal digits.
IntOk(s) ==
    LET t == Strip(s)
    IN  IF Len(t) > 0 /\ t[1] \in {43, 45} THEN AllDigits(Tail(t)) ELSE AllDigits(t)

\* int(s), when it succeeds.
IntValue(s) ==
    LET t == Strip(s)
    IN  IF Len(t) > 0 /\ t[1] = 45 THEN 0 - DigitsValue(Tail(t))
        ELSE IF Len(t) > 0 /\ t[1] = 43 THEN DigitsValue(Tail(t))
        ELSE DigitsValue(t)

RECURSIVE FormatNat(_)
FormatNat(n) == IF n < 10 THEN << 48 + n >> ELSE FormatNat(n \div 10) \o << 48 + (n % 10) >>

\* "{}".format(x) for an integer or None.
Format(x) ==
    IF x = None THEN << 78, 111, 110, 101 >>
    ELSE IF x < 0 THEN << 45 >> \o FormatNat(0 - x)
    ELSE FormatNat(x)

\* s.split(";")
RECURSIVE Split(_)
Split(s) ==
    IF \A i \in 1..Len(s) : s[i] # 59 THEN << s >>
    ELSE LET k == CHOOSE i \in 1..Len(s) : s[i] = 59 /\ \A j \in 1..(i - 1) : s[j] # 59
         IN  << SubSeq(s, 1, k - 1) >> \o Split(SubSeq(s, k + 1, Len(s)))

\* ";".join(parts)
RECURSIVE Join(_)
Join(parts) ==
    IF parts = << >> THEN << >>
    ELSE IF Len(parts) = 1 THEN parts[1]
    ELSE parts[1] \o << 59 >> \o Join(Tail(parts))

\* One element of a result: [glyph, attributes, offset].
Rec(g, a, o) == [glyph |-> g, attrs |-> a, offset |-> o]

\* One element of the buffer of AnsiTerminalParser: a list [glyph, attributes,
\* offset], which normalize() writes into.  id tells the list objects apart: the
\* raw offset of the loop iteration that built it and its rank among the lists
\* that iteration built.  Two elements with one id are one list, in the buffer
\* twice.
Cell(g, a, o, id) == [glyph |-> g, attrs |-> a, offset |-> o, id |-> id]

\* The (glyph, attributes) pairs of a result.
Pairs(res) == [i \in 1..Len(res) |-> << res[i].glyph, res[i].attrs >>]

\* The loop-local state of a reset, when none is running.
NoState == [text |-> << >>]

-----------------------------------------------------------------------------
(* AnsiTerminalParser: the pure parts of reset *)

\* The loop-local state (the _DotDict) at the start of reset.  error is the
\* exception that has escaped the loop, "" while none has.
AnsiStart(text, colours) ==
    [result |-> << >>,
     attributes |-> IF colours # NoColours THEN colours ELSE << None, None, None >>,
     offset |-> 0,
     last_offset |-> 0,
     cursor |-> 0,
     text |-> text,
     error |-> ""]

\* [@-~], the final byte of a control sequence.
IsFinalByte(c) == c \in 64..126

\* The index of the first character of text in [@-~] from index j on, 0 if none.
RECURSIVE FirstFinalByte(_, _)
FirstFinalByte(text, j) ==
    IF j > Len(text) THEN 0
    ELSE IF IsFinalByte(text[j]) THEN j
    ELSE FirstFinalByte(text, j + 1)

\* _colour_sequence.match(text): ESC [, the longest run of characters outside
\* [@-~] (group 2), one character in [@-~] (group 3); len1 is len(group(1)).
\* The trailing (.*) matches the empty string at least, so it never fails.
Match(text) ==
    IF Len(text) >= 2 /\ text[1] = 27 /\ text[2] = 91
    THEN LET j == FirstFinalByte(text, 3)
         IN  IF j = 0 THEN [matched |-> FALSE]
             ELSE [matched |-> TRUE,
                   group2 |-> SubSeq(text, 3, j - 1),
                   group3 |-> text[j],
                   len1 |-> j]
    ELSE [matched |-> FALSE]

\* try: int(parameter) except ValueError: 0
IntParam(p) == IF IntOk(p) THEN IntValue(p) ELSE 0

\* A slip of ResetAttributes: foreground and background are swapped.
ResetAttributesSwapped == << COLOUR_BLACK, A_NORMAL, COLOUR_WHITE >>

\* The triple of an SGR reset.
ResetAttributes == << COLOUR_WHITE, A_NORMAL, COLOUR_BLACK >>

\* A slip of IsStandardBackground: range(40, 47).
IsStandardBackgroundShort(p) == p \in 40..46

\* range(30, 38) and range(40, 48)
IsStandardForeground(p) == p \in 30..37
IsStandardBackground(p) == p \in 40..47

\* The top-level branch of the SGR parameter stream.
SGRTopLevel(f, p) ==
    IF p = 0 THEN [f EXCEPT !.attributes = ResetAttributes]
    ELSE IF p = 1 THEN [f EXCEPT !.attributes[2] = A_BOLD]
    ELSE IF p \in {2, 22} THEN [f EXCEPT !.attributes[2] = A_NORMAL]
    ELSE IF p = 7 THEN [f EXCEPT !.attributes[2] = A_REVERSE]
    ELSE IF p = 27 THEN [f EXCEPT !.attributes[2] = A_NORMAL]
    ELSE IF IsStandardForeground(p) THEN [f EXCEPT !.attributes[1] = p - 30]
    ELSE IF IsStandardBackground(p) THEN [f EXCEPT !.attributes[3] = p - 40]
    ELSE IF p = 38 THEN [f EXCEPT !.in_set_mode = TRUE, !.attribute_index = 0]
    ELSE IF p = 48 THEN [f EXCEPT !.in_set_mode = TRUE, !.attribute_index = 2]
    ELSE f

\* A slip of SGRParameter: a 2;r;g;b sequence skips two parameters, not three.
SGRParameterSkipsTwo(f, p) ==
    IF f.in_set_mode
    THEN [f EXCEPT !.in_index_mode = IF p = 5 THEN TRUE ELSE @,
                   !.in_rgb_mode = IF p # 5 /\ p = 2 THEN TRUE ELSE @,
                   !.skip_size = IF p # 5 /\ p = 2 THEN 2 ELSE @,
                   !.in_set_mode = FALSE]
    ELSE IF f.in_index_mode
    THEN [f EXCEPT !.attributes[f.attribute_index + 1] = p, !.in_index_mode = FALSE]
    ELSE IF f.in_rgb_mode
    THEN [f EXCEPT !.skip_size = @ - 1,
                   !.in_rgb_mode = IF f.skip_size - 1 <= 0 THEN FALSE ELSE @]
    ELSE SGRTopLevel(f, p)

\* One parameter of the SGR parameter stream.
SGRParameter(f, p) ==
    IF f.in_set_mode
    THEN [f EXCEPT !.in_index_mode = IF p = 5 THEN TRUE ELSE @,
                   !.in_rgb_mode = IF p # 5 /\ p = 2 THEN TRUE ELSE @,
                   !.skip_size = IF p # 5 /\ p = 2 THEN 3 ELSE @,
                   !.in_set_mode = FALSE]
    ELSE IF f.in_index_mode
    THEN [f EXCEPT !.attributes[f.attribute_index + 1] = p, !.in_index_mode = FALSE]
    ELSE IF f.in_rgb_mode
    THEN [f EXCEPT !.skip_size = @ - 1,
                   !.in_rgb_mode = IF f.skip_size - 1 <= 0 THEN FALSE ELSE @]
    ELSE SGRTopLevel(f, p)

RECURSIVE SGRStream(_, _)
SGRStream(f, params) ==
    IF params = << >> THEN f
    ELSE SGRStream(SGRParameter(f, IntParam(params[1])), Tail(params))

\* The attributes after CSI group2 m.
SGR(attrs, group2) ==
    SGRStream([in_set_mode |-> FALSE, in_index_mode |-> FALSE, in_rgb_mode |-> FALSE,
               skip_size |-> 0, attribute_index |-> 0, attributes |-> attrs],
              Split(group2)).attributes

\* The j-th space that an erase writes.
Blank(s, j) == Cell(<< 32 >>, s.attributes, s.offset, << s.offset, j >>)

\* [[" ", tuple(st.attributes), st.offset] for _ in range(st.cursor)]
Blanks(s) == [j \in 1..Max(s.cursor, 0) |-> Blank(s, j)]

\* A slip of EraseToEnd: the entry at the cursor is kept.
EraseAfterCursor(res, c) == SliceTo(res, c + 1)

\* result[:cursor], the buffer after CSI K and CSI 0 K.
EraseToEnd(res, c) == SliceTo(res, c)

\* A slip of EraseLine: CSI 2 K empties the buffer.
EraseLineClears(s, param) ==
    IF param \in {<< >>, << 48 >>} THEN EraseToEnd(s.result, s.cursor)
    ELSE IF param = << 49 >> THEN Blanks(s) \o SliceFrom(s.result, s.cursor)
    ELSE IF param = << 50 >> THEN << >>
    ELSE s.result

\* The buffer after CSI param K.
EraseLine(s, param) ==
    IF param \in {<< >>, << 48 >>} THEN EraseToEnd(s.result, s.cursor)
    ELSE IF param = << 49 >> THEN Blanks(s) \o SliceFrom(s.result, s.cursor)
    ELSE IF param = << 50 >> THEN Blanks(s)
    ELSE s.result

\* 1 if group2 == "" else int(group2): whether it raises, and its value otherwise.
CountRaises(group2) == group2 # << >> /\ ~IntOk(group2)
Count(group2) == IF group2 = << >> THEN 1 ELSE IntValue(group2)

\* A slip of DeleteChars: the tail is taken from cursor - n.
DeleteCharsBackwards(res, c, n) == SliceTo(res, c) \o SliceFrom(res, c - n)

\* The buffer after CSI n P.
DeleteChars(res, c, n) == SliceTo(res, c) \o SliceFrom(res, c + n)

\* _handle_escape: the state after it, with the number of characters to consume
\* in n; error is set when int() raises.
HandleEscape(s) ==
    LET m == Match(s.text)
    IN  IF ~m.matched THEN [s |-> s, n |-> 2]
        ELSE IF m.group3 = 109
        THEN [s |-> [s EXCEPT !.attributes = SGR(s.attributes, m.group2)], n |-> m.len1]
        ELSE IF m.group3 = 75
        THEN [s |-> [s EXCEPT !.result = EraseLine(s, m.group2)], n |-> m.len1]
        ELSE IF m.group3 \in {80, 67, 68} /\ CountRaises(m.group2)
        THEN [s |-> [s EXCEPT !.error = "ValueError"], n |-> 0]
        ELSE IF m.group3 = 80
        THEN [s |-> [s EXCEPT !.result = DeleteChars(s.result, s.cursor, Count(m.group2))],
              n |-> m.len1]
        ELSE IF m.group3 = 67
        THEN [s |-> [s EXCEPT !.cursor = @ + Count(m.group2)], n |-> m.len1]
        ELSE IF m.group3 = 68
        THEN [s |-> [s EXCEPT !.cursor = @ - Count(m.group2)], n |-> m.len1]
        ELSE [s |-> s, n |-> m.len1]

\* A slip of Backspace: the cursor is not clamped at 0.
BackspaceUnclamped(c) == c - 1

\* The cursor after a backspace.
Backspace(c) == Max(c - 1, 0)

\* The state after a printable character: written at the cursor, over the
\* entry there if there is one.
WriteGlyph(s) ==
    [s EXCEPT !.result = SliceAssign(s.result, s.cursor, s.cursor + 1,
                                     << Cell(<< s.text[1] >>, s.attributes, s.last_offset,
                                             << s.offset, 0 >>) >>),
              !.cursor = @ + 1,
              !.last_offset = s.offset + 1]

\* One iteration of the loop of reset, on a non-empty text.
Dispatch(s) ==
    LET char == s.text[1]
        r == IF char > 31 THEN [s |-> WriteGlyph(s), n |-> 1]
             ELSE IF char = 8 THEN [s |-> [s EXCEPT !.cursor = Backspace(@)], n |-> 1]
             ELSE IF char = 13 THEN [s |-> [s EXCEPT !.cursor = 0], n |-> 1]
             ELSE IF char = 27 THEN HandleEscape(s)
             ELSE [s |-> s, n |-> 1]
    IN  IF r.s.error # "" THEN r.s
        ELSE [r.s EXCEPT !.offset = @ + r.n, !.text = SliceFrom(@, r.n)]

\* The loop of reset, run to its end or to the exception.
RECURSIVE AnsiLoop(_)
AnsiLoop(s) == IF s.text = << >> \/ s.error # "" THEN s ELSE AnsiLoop(Dispatch(s))

\* self._result after the loop: the buffer, and the final colours if needed.
FinalResult(s) ==
    IF s.last_offset # s.offset
    THEN Append(s.result, Cell(NoGlyph, s.attributes, s.last_offset, << s.offset, 0 >>))
    ELSE s.result

\* self._cursor after the loop.
FinalCursor(s) == Len(s.result) - s.cursor

\* AnsiTerminalParser().reset(text, colours) on a fresh instance: what it leaves.
AnsiReset(text, colours) ==
    LET s == AnsiLoop(AnsiStart(text, colours))
    IN  IF s.error # "" THEN [error |-> s.error, result |-> << >>, cursor |-> 0]
        ELSE [error |-> "", result |-> FinalResult(s), cursor |-> FinalCursor(s)]

\* The SGR sequence normalize writes to go from the attributes prev to next.
SGRChange(prev, next) ==
    LET fg == IF prev[1] # next[1] THEN << << 51, 56, 59, 53, 59 >> \o Format(next[1]) >> ELSE << >>
        sty == IF prev[2] # next[2]
               THEN IF next[2] = A_BOLD THEN << << 49 >> >>
                    ELSE IF next[2] = A_NORMAL THEN << << 50 >> >>
                    ELSE IF next[2] = A_REVERSE THEN << << 55 >> >>
                    ELSE << >>
               ELSE << >>
        bg == IF prev[3] # next[3] THEN << << 52, 56, 59, 53, 59 >> \o Format(next[3]) >> ELSE << >>
    IN  << 27, 91 >> \o Join(fg \o sty \o bg) \o << 109 >>

\* self._result[i][2] = o: the list at index i is written into, wherever else
\* in the buffer that same list is.
SetOffset(res, i, o) ==
    [j \in 1..Len(res) |-> IF res[j].id = res[i].id THEN [res[j] EXCEPT !.offset = o]
                           ELSE res[j]]

\* The loop of normalize over self._result from element i on: the string built
\* and the result with its offsets rewritten.
RECURSIVE NormalizeLoop(_, _, _, _, _)
NormalizeLoop(res, i, new_value, attrs, last_offset) ==
    IF i > Len(res) THEN [new_value |-> new_value, result |-> res]
    ELSE LET element == res[i]
             v1 == IF attrs # element.attrs
                   THEN new_value \o SGRChange(attrs, element.attrs)
                   ELSE new_value
             v2 == IF element.glyph # NoGlyph THEN v1 \o element.glyph ELSE v1
         IN  NormalizeLoop(SetOffset(res, i, last_offset), i + 1, v2,
                           element.attrs, Len(v2))

\* A slip of CursorSuffix: the sequence moves the cursor forward.
CursorSuffixForward(c) == IF c > 0 THEN << 27, 91 >> \o Format(c) \o << 67 >> ELSE << >>

\* The cursor-back sequence normalize appends.
CursorSuffix(c) == IF c > 0 THEN << 27, 91 >> \o Format(c) \o << 68 >> ELSE << >>

\* AnsiTerminalParser.normalize() on the stored result and cursor.
AnsiNormalize(res, c) ==
    LET r == NormalizeLoop(res, 1, << >>, << None, None, None >>, 0)
    IN  [new_value |-> r.new_value \o CursorSuffix(c), result |-> r.result]

-----------------------------------------------------------------------------
(* ControlCodeParser and AsciimaticsParser: the pure parts *)

\* A slip of ControlGlyph: the comparison is <= 32.
ControlGlyphInclusive(letter) == IF letter <= 32 THEN << 94, 64 + letter >> ELSE << letter >>

\* The glyph of one character: "^" + chr(ord("@") + ord(letter)) below 32.
ControlGlyph(letter) == IF letter < 32 THEN << 94, 64 + letter >> ELSE << letter >>

\* The attributes attached to every element: one iterator over the colours,
\* shared by all of them, or the triple of Nones.
ControlAttributes(colours) ==
    IF colours # NoColours THEN [iter |-> colours] ELSE << None, None, None >>

\* The result of ControlCodeParser.reset: one element per character.
ControlResult(text, colours) ==
    [i \in 1..Len(text) |-> Rec(ControlGlyph(text[i]), ControlAttributes(colours), i - 1)]

\* constants.MAPPING_ATTRIBUTES: the style code of a style name.
MAPPING_ATTRIBUTES(name) ==
    IF name = << 49 >> THEN A_BOLD
    ELSE IF name = << 50 >> THEN A_NORMAL
    ELSE IF name = << 51 >> THEN A_REVERSE
    ELSE None

\* The length of the run of digits at the head of s.
RECURSIVE DigitRun(_)
DigitRun(s) == IF s # << >> /\ IsDigit(s[1]) THEN 1 + DigitRun(Tail(s)) ELSE 0

\* constants.COLOUR_REGEX matched at the head of text: ${c}, ${c,a} or ${c,a,b}.
\* inner is group 1 (what the braces hold), fields its comma-separated numbers,
\* rest is the last group (the text after the sequence).
MatchColour(text) ==
    IF Len(text) >= 2 /\ text[1] = 36 /\ text[2] = 123
    THEN LET body == SubSeq(text, 3, Len(text))
             n1 == DigitRun(body)
             t1 == SubSeq(body, n1 + 1, Len(body))
             n2 == IF t1 # << >> /\ t1[1] = 44 THEN DigitRun(Tail(t1)) ELSE 0
             t2 == SubSeq(t1, n2 + 2, Len(t1))
             n3 == IF t2 # << >> /\ t2[1] = 44 THEN DigitRun(Tail(t2)) ELSE 0
             t3 == SubSeq(t2, n3 + 2, Len(t2))
             f1 == SubSeq(body, 1, n1)
             f2 == SubSeq(t1, 2, n2 + 1)
             f3 == SubSeq(t2, 2, n3 + 1)
         IN  IF n1 > 0 /\ n2 > 0 /\ n3 > 0 /\ t3 # << >> /\ t3[1] = 125
             THEN [matched |-> TRUE, inner |-> SubSeq(body, 1, n1 + n2 + n3 + 2),
                   fields |-> << f1, f2, f3 >>, rest |-> Tail(t3)]
             ELSE IF n1 > 0 /\ n2 > 0 /\ t2 # << >> /\ t2[1] = 125
             THEN [matched |-> TRUE, inner |-> SubSeq(body, 1, n1 + n2 + 1),
                   fields |-> << f1, f2 >>, rest |-> Tail(t2)]
             ELSE IF n1 > 0 /\ t1 # << >> /\ t1[1] = 125
             THEN [matched |-> TRUE, inner |-> f1, fields |-> << f1 >>, rest |-> Tail(t1)]
             ELSE [matched |-> FALSE]
    ELSE [matched |-> FALSE]

\* The attributes a matched colour sequence sets.
ColourAttributes(fields) ==
    IF Len(fields) = 3
    THEN << IntValue(fields[1]), MAPPING_ATTRIBUTES(fields[2]), IntValue(fields[3]) >>
    ELSE IF Len(fields) = 2
    THEN << IntValue(fields[1]), MAPPING_ATTRIBUTES(fields[2]), None >>
    ELSE << IntValue(fields[1]), 0, None >>

\* The loop-local variables of AsciimaticsParser.reset at its start.
MarkupStart(text, colours) ==
    [attributes |-> IF colours # NoColours THEN colours ELSE << None, None, None >>,
     offset |-> 0,
     last_offset |-> 0,
     text |-> text]

\* A slip of TokenAdvance: the "${" and "}" around the sequence are not counted.
TokenAdvanceInnerOnly(inner) == Len(inner)

\* What a matched colour sequence adds to the offset.
TokenAdvance(inner) == 3 + Len(inner)

-----------------------------------------------------------------------------
(* The inputs of the model *)

\* Every concatenation of at most n of the given strings.
RECURSIVE Concats(_, _)
Concats(tokens, n) ==
    IF n = 0 THEN {<< >>}
    ELSE LET prev == Concats(tokens, n - 1)
         IN  prev \cup {p \o t : p \in prev, t \in tokens}

\* The colours given to reset: None, or a triple.
Colours == {NoColours, << 3, A_BOLD, 4 >>}

\* Characters of ControlCodeParser inputs: NUL, CR, US, space, "a".
ControlChars == {<< 0 >>, << 13 >>, << 31 >>, << 32 >>, << 97 >>}
ControlInputs == Concats(ControlChars, MaxControlLen)

\* Pieces of AsciimaticsParser inputs: "H", "i", "$", "${1}", "${2,1}", "${3,2,4}".
MarkupTokens ==
    {<< 72 >>, << 105 >>, << 36 >>,
     << 36, 123, 49, 125 >>,
     << 36, 123, 50, 44, 49, 125 >>,
     << 36, 123, 51, 44, 50, 44, 52, 125 >>}
MarkupInputs == Concats(MarkupTokens, MaxMarkupTokens)

\* Pieces of AnsiTerminalParser inputs.
AnsiTokens ==
    {<< 97 >>,                      \* a
     << 7 >>,                       \* BEL
     << 8 >>,                       \* backspace
     << 13 >>,                      \* carriage return
     << 27 >>,                      \* ESC alone
     << 27, 91 >>,                  \* ESC [ with nothing after it
     << 27, 91, 109 >>,             \* ESC [ m
     << 27, 91, 48, 109 >>,         \* ESC [ 0 m
     << 27, 91, 51, 49, 109 >>,     \* ESC [ 31 m
     << 27, 91, 52, 55, 109 >>,     \* ESC [ 47 m
     << 27, 91, 75 >>,              \* ESC [ K
     << 27, 91, 48, 75 >>,          \* ESC [ 0 K
     << 27, 91, 49, 75 >>,          \* ESC [ 1 K
     << 27, 91, 50, 75 >>,          \* ESC [ 2 K
     << 27, 91, 80 >>,              \* ESC [ P
     << 27, 91, 50, 80 >>,          \* ESC [ 2 P
     << 27, 91, 59, 80 >>,          \* ESC [ ; P
     << 27, 91, 45, 49, 80 >>,      \* ESC [ -1 P
     << 27, 91, 67 >>,              \* ESC [ C
     << 27, 91, 50, 68 >>}          \* ESC [ 2 D

\* The calls of AnsiTerminalParser.reset: every input without colours, and the
\* inputs of one token less with colours.
AnsiCalls ==
    (Concats(AnsiTokens, MaxAnsiTokens) \X {NoColours})
        \cup (Concats(AnsiTokens, MaxAnsiTokens - 1) \X (Colours \ {NoColours}))

-----------------------------------------------------------------------------
(* The parser instance *)

\* Parser.__init__
Construct(p) ==
    /\ parser = p
    /\ raw_text = << >>
    /\ attributes = NoColours
    /\ cursor = 0
    /\ result = << >>
    /\ st = NoState
    /\ pc = "new"
    /\ ret = NoRet
    /\ seen = {}

InitControl == Construct("ControlCodeParser")
InitMarkup == Construct("AsciimaticsParser")
InitAnsi == Construct("AnsiTerminalParser")

\* ControlCodeParser.reset(text, colours)
ControlReset ==
    /\ parser = "ControlCodeParser"
    /\ pc = "new"
    /\ \E text \in ControlInputs, colours \in Colours :
          /\ raw_text' = text
          /\ attributes' = colours
          /\ cursor' = 0
          /\ result' = ControlResult(text, colours)
    /\ pc' = "done"
    /\ UNCHANGED <<parser, st, ret, seen>>

\* ControlCodeParser.normalize() and AsciimaticsParser.normalize()
RawNormalize ==
    /\ parser \in {"ControlCodeParser", "AsciimaticsParser"}
    /\ pc = "done"
    /\ ret' = raw_text
    /\ UNCHANGED <<parser, raw_text, attributes, cursor, result, st, pc, seen>>

\* AsciimaticsParser.reset(text, colours), to the head of its loop.
MarkupReset ==
    /\ parser = "AsciimaticsParser"
    /\ pc = "new"
    /\ \E text \in MarkupInputs, colours \in Colours :
          /\ raw_text' = text
          /\ attributes' = colours
          /\ st' = MarkupStart(text, colours)
    /\ cursor' = 0
    /\ result' = << >>
    /\ pc' = "parsing"
    /\ UNCHANGED <<parser, ret, seen>>

\* One iteration of the loop with no colour sequence at the head of the text.
MarkupLiteral ==
    /\ parser = "AsciimaticsParser"
    /\ pc = "parsing"
    /\ st.text # << >>
    /\ ~MatchColour(st.text).matched
    /\ result' = Append(result, Rec(<< st.text[1] >>, st.attributes, st.last_offset))
    /\ st' = [st EXCEPT !.text = Tail(@), !.offset = @ + 1, !.last_offset = st.offset + 1]
    /\ seen' = seen \cup {"literal"}
    /\ UNCHANGED <<parser, raw_text, attributes, cursor, pc, ret>>

\* One iteration of the loop with a colour sequence at the head of the text.
MarkupToken ==
    /\ parser = "AsciimaticsParser"
    /\ pc = "parsing"
    /\ st.text # << >>
    /\ MatchColour(st.text).matched
    /\ LET m == MatchColour(st.text)
       IN  st' = [st EXCEPT !.attributes = ColourAttributes(m.fields),
                            !.offset = @ + TokenAdvance(m.inner),
                            !.text = m.rest]
    /\ seen' = seen \cup {"token"}
    /\ UNCHANGED <<parser, raw_text, attributes, cursor, result, pc, ret>>

\* A slip of MarkupFinish: the cursor is saved after the final colours are added.
MarkupFinishCursorLast ==
    /\ parser = "AsciimaticsParser"
    /\ pc = "parsing"
    /\ st.text = << >>
    /\ result' = IF st.last_offset # st.offset
                 THEN Append(result, Rec(NoGlyph, st.attributes, st.last_offset))
                 ELSE result
    /\ cursor' = Len(result')
    /\ st' = NoState
    /\ pc' = "done"
    /\ UNCHANGED <<parser, raw_text, attributes, ret, seen>>

\* The end of AsciimaticsParser.reset: the cursor, and the final colours if needed.
MarkupFinish ==
    /\ parser = "AsciimaticsParser"
    /\ pc = "parsing"
    /\ st.text = << >>
    /\ cursor' = Len(result)
    /\ result' = IF st.last_offset # st.offset
                 THEN Append(result, Rec(NoGlyph, st.attributes, st.last_offset))
                 ELSE result
    /\ st' = NoState
    /\ pc' = "done"
    /\ UNCHANGED <<parser, raw_text, attributes, ret, seen>>

NextControl == ControlReset \/ RawNormalize
NextMarkup == MarkupReset \/ MarkupLiteral \/ MarkupToken \/ MarkupFinish \/ RawNormalize

SpecControl == InitControl /\ [][NextControl]_vars
SpecMarkup == InitMarkup /\ [][NextMarkup]_vars

-----------------------------------------------------------------------------
(* AnsiTerminalParser: reset, one loop iteration at a time, and normalize *)

\* The branch of the loop (and of _handle_escape) that the head of the text takes.
Branch(s) ==
    LET char == s.text[1]
        m == Match(s.text)
    IN  IF char > 31 THEN "printable"
        ELSE IF char = 8 THEN "backspace"
        ELSE IF char = 13 THEN "return"
        ELSE IF char # 27 THEN "ignored"
        ELSE IF ~m.matched THEN "nomatch"
        ELSE IF m.group3 = 109 THEN "sgr"
        ELSE IF m.group3 = 75 THEN "erase"
        ELSE IF m.group3 = 80 THEN "delete"
        ELSE IF m.group3 = 67 THEN "forward"
        ELSE IF m.group3 = 68 THEN "back"
        ELSE "control"

\* What is recorded of an iteration: its branch, with the parameter of an erase
\* and the sign of the count of a delete.
Taken(s) ==
    LET m == Match(s.text)
    IN  IF Branch(s) = "erase"
        THEN IF m.group2 \in {<< >>, << 48 >>} THEN "erase0"
             ELSE IF m.group2 = << 49 >> THEN "erase1"
             ELSE IF m.group2 = << 50 >> THEN "erase2"
             ELSE "erase?"
        ELSE IF Branch(s) = "delete" /\ ~CountRaises(m.group2) /\ Count(m.group2) < 0
        THEN "delete-"
        ELSE Branch(s)

\* AnsiTerminalParser.reset(text, colours), to the head of its loop.
AnsiResetCall ==
    /\ parser = "AnsiTerminalParser"
    /\ pc = "new"
    /\ \E call \in AnsiCalls :
          /\ raw_text' = call[1]
          /\ attributes' = call[2]
          /\ st' = AnsiStart(call[1], call[2])
    /\ cursor' = 0
    /\ result' = << >>
    /\ pc' = "parsing"
    /\ UNCHANGED <<parser, ret, seen>>

\* The loop of reset is at an iteration that takes the given branch.
AnsiAt(branch) ==
    /\ parser = "AnsiTerminalParser"
    /\ pc = "parsing"
    /\ st.text # << >>
    /\ Branch(st) = branch

\* The iteration itself.  An exception ends the call and leaves the instance as
\* Parser.reset set it.
AnsiIterate ==
    /\ LET s == Dispatch(st)
       IN  IF s.error # ""
           THEN st' = NoState /\ pc' = "raised"
           ELSE st' = s /\ pc' = pc
    /\ seen' = seen \cup {Taken(st)}
    /\ UNCHANGED <<parser, raw_text, attributes, cursor, result, ret>>

AnsiPrintable ==
    /\ AnsiAt("printable")
    /\ AnsiIterate

AnsiBackspace ==
    /\ AnsiAt("backspace")
    /\ AnsiIterate

AnsiCarriageReturn ==
    /\ AnsiAt("return")
    /\ AnsiIterate

AnsiIgnoredCharacter ==
    /\ AnsiAt("ignored")
    /\ AnsiIterate

AnsiEscapeNoMatch ==
    /\ AnsiAt("nomatch")
    /\ AnsiIterate

AnsiSGR ==
    /\ AnsiAt("sgr")
    /\ AnsiIterate

AnsiEraseLine ==
    /\ AnsiAt("erase")
    /\ AnsiIterate

AnsiDeleteChars ==
    /\ AnsiAt("delete")
    /\ AnsiIterate

AnsiCursorForward ==
    /\ AnsiAt("forward")
    /\ AnsiIterate

AnsiCursorBack ==
    /\ AnsiAt("back")
    /\ AnsiIterate

AnsiIgnoredControl ==
    /\ AnsiAt("control")
    /\ AnsiIterate

\* The end of AnsiTerminalParser.reset.
AnsiFinish ==
    /\ parser = "AnsiTerminalParser"
    /\ pc = "parsing"
    /\ st.text = << >>
    /\ result' = FinalResult(st)
    /\ cursor' = FinalCursor(st)
    /\ st' = NoState
    /\ pc' = "done"
    /\ UNCHANGED <<parser, raw_text, attributes, ret, seen>>

\* AnsiTerminalParser.normalize()
AnsiNormalizeCall ==
    /\ parser = "AnsiTerminalParser"
    /\ pc = "done"
    /\ LET r == AnsiNormalize(result, cursor)
       IN  /\ result' = r.result
           /\ raw_text' = r.new_value
           /\ ret' = r.new_value
    /\ UNCHANGED <<parser, attributes, cursor, st, pc, seen>>

NextAnsi ==
    \/ AnsiResetCall
    \/ AnsiPrintable
    \/ AnsiBackspace
    \/ AnsiCarriageReturn
    \/ AnsiIgnoredCharacter
    \/ AnsiEscapeNoMatch
    \/ AnsiSGR
    \/ AnsiEraseLine
    \/ AnsiDeleteChars
    \/ AnsiCursorForward
    \/ AnsiCursorBack
    \/ AnsiIgnoredControl
    \/ AnsiFinish
    \/ AnsiNormalizeCall

SpecAnsi == InitAnsi /\ [][NextAnsi]_vars

-----------------------------------------------------------------------------
(* AnsiTerminalParser.reset on one SGR sequence with colour selectors *)

\* Most parameters after the colour selector at the head of an SGR sequence.
MaxSGRParams == 2

\* Every list of at most n elements of S.
RECURSIVE Lists(_, _)
Lists(S, n) ==
    IF n = 0 THEN {<< >>}
    ELSE LET prev == Lists(S, n - 1)
         IN  prev \cup {Append(l, x) : l \in prev, x \in S}

\* Parameters of an SGR sequence: "", "2", "5", "31", "38".
SGRParams == {<< >>, << 50 >>, << 53 >>, << 51, 49 >>, << 51, 56 >>}

\* The r, g and b of a true-colour selector: "0", "5", "38".
SGRComponents == {<< 48 >>, << 53 >>, << 51, 56 >>}

\* The n of an indexed selector: "9", "5", "38".
SGRIndices == {<< 57 >>, << 53 >>, << 51, 56 >>}

\* "38" and "48"
SGRSelectors == {<< 51, 56 >>, << 52, 56 >>}

\* The heads of the sequences: nothing, 38;2;r;g;b, 48;2;r;g;b, 38;5;n, 48;5;n.
SGRHeads ==
    {<< >>}
        \cup {<< sel, << 50 >>, r, g, b >> :
                 sel \in SGRSelectors, r \in SGRComponents, g \in SGRComponents,
                 b \in SGRComponents}
        \cup {<< sel, << 53 >>, n >> : sel \in SGRSelectors, n \in SGRIndices}

\* The inputs: ESC [ head ; parameters m.
SGRInputs ==
    {<< 27, 91 >> \o Join(head \o params) \o << 109 >> :
        head \in SGRHeads, params \in Lists(SGRParams, MaxSGRParams)}

\* AnsiTerminalParser.reset(text, colours) on one SGR sequence, to the head of
\* its loop.
SGRResetCall ==
    /\ parser = "AnsiTerminalParser"
    /\ pc = "new"
    /\ \E text \in SGRInputs, colours \in Colours :
          /\ raw_text' = text
          /\ attributes' = colours
          /\ st' = AnsiStart(text, colours)
    /\ cursor' = 0
    /\ result' = << >>
    /\ pc' = "parsing"
    /\ UNCHANGED <<parser, ret, seen>>

NextSGR == SGRResetCall \/ AnsiSGR \/ AnsiFinish

SpecSGR == InitAnsi /\ [][NextSGR]_vars

-----------------------------------------------------------------------------
(* AnsiTerminalParser.reset on glyphs, cursor moves and erases from the start *)

\* Most tokens in an input of glyphs, cursor moves and erases.
MaxEraseTokens == 4

\* Pieces of the inputs: "a", ESC [ 31 m, ESC [ 3 D, ESC [ C, ESC [ 1 K.
EraseTokens ==
    {<< 97 >>,
     << 27, 91, 51, 49, 109 >>,
     << 27, 91, 51, 68 >>,
     << 27, 91, 67 >>,
     << 27, 91, 49, 75 >>}

EraseInputs == Concats(EraseTokens, MaxEraseTokens)

\* AnsiTerminalParser.reset(text, None) on such an input, to the head of its loop.
EraseResetCall ==
    /\ parser = "AnsiTerminalParser"
    /\ pc = "new"
    /\ \E text \in EraseInputs :
          /\ raw_text' = text
          /\ attributes' = NoColours
          /\ st' = AnsiStart(text, NoColours)
    /\ cursor' = 0
    /\ result' = << >>
    /\ pc' = "parsing"
    /\ UNCHANGED <<parser, ret, seen>>

NextErase ==
    \/ EraseResetCall
    \/ AnsiPrintable
    \/ AnsiSGR
    \/ AnsiEraseLine
    \/ AnsiCursorForward
    \/ AnsiCursorBack
    \/ AnsiFinish

SpecErase == InitAnsi /\ [][NextErase]_vars

-----------------------------------------------------------------------------
(* AnsiTerminalParser.reset on coloured glyphs written over each other, and normalize *)

\* Most tokens in an input of glyphs, colours and cursor moves.
MaxOverwriteTokens == 5

\* Pieces of the inputs: "a", carriage return, ESC [ 31 m, ESC [ 7 m, ESC [ 3 D.
OverwriteTokens ==
    {<< 97 >>,
     << 13 >>,
     << 27, 91, 51, 49, 109 >>,
     << 27, 91, 55, 109 >>,
     << 27, 91, 51, 68 >>}

OverwriteInputs == Concats(OverwriteTokens, MaxOverwriteTokens)

\* AnsiTerminalParser.reset(text, None) on such an input, to the head of its loop.
OverwriteResetCall ==
    /\ parser = "AnsiTerminalParser"
    /\ pc = "new"
    /\ \E text \in OverwriteInputs :
          /\ raw_text' = text
          /\ attributes' = NoColours
          /\ st' = AnsiStart(text, NoColours)
    /\ cursor' = 0
    /\ result' = << >>
    /\ pc' = "parsing"
    /\ UNCHANGED <<parser, ret, seen>>

NextOverwrite ==
    \/ OverwriteResetCall
    \/ AnsiPrintable
    \/ AnsiCarriageReturn
    \/ AnsiSGR
    \/ AnsiCursorBack
    \/ AnsiFinish
    \/ AnsiNormalizeCall

SpecOverwrite == InitAnsi /\ [][NextOverwrite]_vars

-----------------------------------------------------------------------------
(* An instance used again: reset as a whole call, on an instance in any state *)

\* Most tokens in an input given to an instance that is used again.
MaxReuseTokens == 2

\* The four fields of an instance.
Instance ==
    [raw_text |-> raw_text, attributes |-> attributes, cursor |-> cursor, result |-> result]

\* The fields as Parser.__init__ sets them.
NewInstance == [raw_text |-> << >>, attributes |-> NoColours, cursor |-> 0, result |-> << >>]

\* A slip of ParserReset: self._result is not emptied.
ParserResetKeepsResult(self, text, colours) ==
    [self EXCEPT !.raw_text = text, !.attributes = colours, !.cursor = 0]

\* Parser.reset(text, colours) on the instance self.
ParserReset(self, text, colours) ==
    [self EXCEPT !.raw_text = text, !.attributes = colours, !.cursor = 0, !.result = << >>]

\* ControlCodeParser.reset(text, colours) on the instance self: the elements are
\* appended to what Parser.reset left in self._result.
ControlResetOn(self, text, colours) ==
    [self |-> [ParserReset(self, text, colours)
                  EXCEPT !.result = @ \o ControlResult(text, colours)],
     error |-> ""]

\* The body of the loop of AsciimaticsParser.reset, m being the match at the
\* head of the text; s holds the locals of the loop and self._result.
MarkupBody(s, m) ==
    IF ~m.matched
    THEN [s EXCEPT !.result = Append(@, Rec(<< s.text[1] >>, s.attributes, s.last_offset)),
                   !.text = Tail(@),
                   !.offset = @ + 1,
                   !.last_offset = s.offset + 1]
    ELSE [s EXCEPT !.attributes = ColourAttributes(m.fields),
                   !.offset = @ + TokenAdvance(m.inner),
                   !.text = m.rest]

\* One iteration of the loop of AsciimaticsParser.reset, on a non-empty text.
MarkupIterate(s) == MarkupBody(s, MatchColour(s.text))

RECURSIVE MarkupLoop(_)
MarkupLoop(s) == IF s.text = << >> THEN s ELSE MarkupLoop(MarkupIterate(s))

\* The locals of AsciimaticsParser.reset at the head of its loop, with the
\* self._result that the elements are appended to.
MarkupEntry(base, start) ==
    [result |-> base.result, attributes |-> start.attributes, offset |-> start.offset,
     last_offset |-> start.last_offset, text |-> start.text]

\* The end of AsciimaticsParser.reset, s being the locals after the loop.
MarkupEnd(base, s) ==
    [self |-> [base EXCEPT !.cursor = Len(s.result),
                           !.result = IF s.last_offset # s.offset
                                      THEN Append(s.result,
                                                  Rec(NoGlyph, s.attributes, s.last_offset))
                                      ELSE s.result],
     error |-> ""]

\* The call of AsciimaticsParser.reset after super().reset() has left base.
MarkupAfterBase(base) ==
    MarkupEnd(base, MarkupLoop(MarkupEntry(base, MarkupStart(base.raw_text, base.attributes))))

\* AsciimaticsParser.reset(text, colours) on the instance self.
MarkupResetOn(self, text, colours) == MarkupAfterBase(ParserReset(self, text, colours))

\* The end of AnsiTerminalParser.reset, s being the state after the loop.  When
\* int() has raised, the instance is left as Parser.reset set it.
AnsiEnd(base, s) ==
    IF s.error # "" THEN [self |-> base, error |-> s.error]
    ELSE [self |-> [base EXCEPT !.result = FinalResult(s), !.cursor = FinalCursor(s)],
          error |-> ""]

\* The call of AnsiTerminalParser.reset after super().reset() has left base.
AnsiAfterBase(base) == AnsiEnd(base, AnsiLoop(AnsiStart(base.raw_text, base.attributes)))

\* AnsiTerminalParser.reset(text, colours) on the instance self.
AnsiResetOn(self, text, colours) == AnsiAfterBase(ParserReset(self, text, colours))

\* reset(text, colours) of the parser class p on the instance self.
ResetOn(p, self, text, colours) ==
    IF p = "ControlCodeParser" THEN ControlResetOn(self, text, colours)
    ELSE IF p = "AsciimaticsParser" THEN MarkupResetOn(self, text, colours)
    ELSE AnsiResetOn(self, text, colours)

\* The inputs given to an instance that is used again.
ReuseControlInputs == Concats({<< 13 >>, << 97 >>}, MaxReuseTokens)
ReuseMarkupInputs ==
    Concats({<< 72 >>, << 36, 123, 49, 125 >>, << 36, 123, 51, 44, 50, 44, 52, 125 >>},
            MaxReuseTokens)
ReuseAnsiInputs ==
    Concats({<< 97 >>, << 8 >>, << 27, 91, 51, 49, 109 >>, << 27, 91, 59, 80 >>},
            MaxReuseTokens)

InitReuse ==
    \E p \in {"ControlCodeParser", "AsciimaticsParser", "AnsiTerminalParser"} : Construct(p)

\* What the instance has been through when a reset is called on it.
Before ==
    IF pc = "new" THEN "fresh"
    ELSE IF pc = "raised" THEN "after-raise"
    ELSE IF ret = NoRet THEN "after-reset"
    ELSE "after-normalize"

\* A call reset(text, colours) between two calls, whatever the earlier ones were.
ResetCall(text, colours) ==
    /\ pc \in {"new", "done", "raised"}
    /\ \E r \in {ResetOn(parser, Instance, text, colours)} :
           /\ raw_text' = r.self.raw_text
           /\ attributes' = r.self.attributes
           /\ cursor' = r.self.cursor
           /\ result' = r.self.result
           /\ pc' = IF r.error # "" THEN "raised" ELSE "done"
    /\ ret' = NoRet
    /\ seen' = seen \cup {Before}
    /\ UNCHANGED <<parser, st>>

ReuseControlReset ==
    /\ parser = "ControlCodeParser"
    /\ \E text \in ReuseControlInputs, colours \in Colours : ResetCall(text, colours)

ReuseMarkupReset ==
    /\ parser = "AsciimaticsParser"
    /\ \E text \in ReuseMarkupInputs, colours \in Colours : ResetCall(text, colours)

ReuseAnsiReset ==
    /\ parser = "AnsiTerminalParser"
    /\ \E text \in ReuseAnsiInputs, colours \in Colours : ResetCall(text, colours)

\* Parser.parse(): the elements are read, the instance is left as it is.
ParseCall ==
    /\ pc \in {"new", "done", "raised"}
    /\ seen' = seen \cup {"parse"}
    /\ UNCHANGED <<parser, raw_text, attributes, cursor, result, st, pc, ret>>

NextReuse ==
    \/ ReuseControlReset
    \/ ReuseMarkupReset
    \/ ReuseAnsiReset
    \/ ParseCall
    \/ RawNormalize
    \/ AnsiNormalizeCall

SpecReuse == InitReuse /\ [][NextReuse]_vars

-----------------------------------------------------------------------------
(* The claims *)

\* The loop of AnsiTerminalParser.reset is at a non-empty text.
AnsiParsing == parser = "AnsiTerminalParser" /\ pc = "parsing" /\ st.text # << >>

\* The loop of AnsiTerminalParser.reset has consumed the whole of the input text.
AnsiConsumed(text) ==
    parser = "AnsiTerminalParser" /\ pc = "parsing" /\ raw_text = text /\ st.text = << >>

\* s starts with the string prefix.
StartsWith(s, prefix) == Len(s) >= Len(prefix) /\ SubSeq(s, 1, Len(prefix)) = prefix

\* The offsets of res never decrease from one element to the next.
NonDecreasing(res) == \A i \in 1..(Len(res) - 1) : res[i].offset <= res[i + 1].offset

\* C1: AnsiTerminalParser.reset never fails: whatever the input, malformed CSI
\* sequences and non-numeric parameters of P, C and D included, no exception
\* leaves reset.
C1_ResetNeverFails == pc # "raised"

\* C2: after AnsiTerminalParser.reset and normalize(), resetting a parser on the
\* returned string with no colours completes and yields the same sequence of
\* (glyph, attributes) pairs, with the same number of records.
C2_RoundTrip ==
    (parser = "AnsiTerminalParser" /\ pc = "done" /\ ret # NoRet)
        => LET again == AnsiReset(ret, NoColours)
           IN  again.error = "" /\ Pairs(again.result) = Pairs(result)

\* The text left of s after the colour sequences at its head.
RECURSIVE SkipColours(_)
SkipColours(s) ==
    IF s # << >> /\ MatchColour(s).matched THEN SkipColours(MatchColour(s).rest) ELSE s

\* "${1}Hi"
MarkupExample == << 36, 123, 49, 125, 72, 105 >>

\* C3, as claimed: after AsciimaticsParser.reset the n-th literal character
\* (from 0) has offset n: colour sequences do not advance the offset.
C3_OffsetsCountLiterals ==
    (parser = "AsciimaticsParser" /\ pc = "done")
        => \A j \in 1..cursor : result[j].offset = j - 1

\* C3, amended: the offsets are offsets in the raw text, which colour sequences
\* advance by their length.  The first glyph has offset 0; the raw text from the
\* offset of a glyph on is the colour sequences before that glyph, if any, then
\* the glyph; and the next glyph's offset is the raw index just after it.
\* "${1}Hi" yields ('H', (1, 0, None), 0) and ('i', (1, 0, None), 5).
C3_OffsetsAreRawOffsets ==
    (parser = "AsciimaticsParser" /\ pc = "done")
        => /\ \A j \in 1..cursor :
                LET from == SubSeq(raw_text, result[j].offset + 1, Len(raw_text))
                    at == SkipColours(from)
                IN  /\ at # << >>
                    /\ << at[1] >> = result[j].glyph
                    /\ j = 1 => result[j].offset = 0
                    /\ j < cursor => result[j + 1].offset = Len(raw_text) - Len(at) + 1
           /\ (raw_text = MarkupExample /\ attributes = NoColours)
                => result = << Rec(<< 72 >>, << 1, 0, None >>, 0),
                               Rec(<< 105 >>, << 1, 0, None >>, 5) >>

C3_Witness ==
    parser = "AsciimaticsParser" /\ pc = "done" /\ raw_text = MarkupExample
        /\ attributes = NoColours /\ cursor = 2

\* C4: ControlCodeParser.reset emits one record per input character, in input
\* order, with glyph "^" + chr(64 + code) for a code below 32 and the character
\* itself otherwise; normalize() returns the raw input text unchanged.
C4_ControlCodes ==
    (parser = "ControlCodeParser" /\ pc = "done")
        => /\ Len(result) = Len(raw_text)
           /\ \A i \in 1..Len(raw_text) :
                result[i].glyph = IF raw_text[i] < 32
                                  THEN << 94, 64 + raw_text[i] >>
                                  ELSE << raw_text[i] >>
           /\ ret # NoRet => ret = raw_text

C4_Witness ==
    /\ parser = "ControlCodeParser" /\ pc = "done" /\ ret # NoRet
    /\ \E i, j \in 1..Len(raw_text) : raw_text[i] < 32 /\ raw_text[j] >= 32

\* C5: a backspace moves the cursor of the loop left by one but never below 0,
\* from any cursor, a negative one included; a carriage return sets it to 0;
\* neither changes the buffer or the current attributes.
C5_BackspaceAndReturn ==
    [][(AnsiParsing /\ st.text[1] \in {8, 13})
          => /\ pc' = "parsing"
             /\ st'.cursor >= 0
             /\ (st.text[1] = 8 /\ st.cursor >= 1) => st'.cursor = st.cursor - 1
             /\ (st.text[1] = 8 /\ st.cursor < 1) => st'.cursor = 0
             /\ st.text[1] = 13 => st'.cursor = 0
             /\ st'.result = st.result
             /\ st'.attributes = st.attributes]_vars

\* ESC [ 2 D (the cursor is at -2), backspace, carriage return
C5_Witness ==
    /\ AnsiConsumed(<< 27, 91, 50, 68, 8, 13 >>)
    /\ seen = {"back", "backspace", "return"}
    /\ st.cursor = 0

\* The text starts with ESC [ K or ESC [ 0 K.
AtEraseToEnd(text) == StartsWith(text, << 27, 91, 75 >>) \/ StartsWith(text, << 27, 91, 48, 75 >>)

\* C6, as claimed: ESC [ K or ESC [ 0 K with the cursor at k leaves the buffer
\* with exactly k entries, the former first k, for every reachable k.
C6_EraseLeavesCursorEntries ==
    [][(AnsiParsing /\ AtEraseToEnd(st.text))
          => /\ Len(st'.result) = st.cursor
             /\ st'.result = SubSeq(st.result, 1, st.cursor)]_vars

\* C6, amended: with the cursor at k >= 0 the buffer keeps its former first
\* min(k, length) entries, unchanged: exactly k entries when k is within the
\* buffer, and all of it when the cursor is beyond its end.  With a negative
\* cursor it keeps its former first max(length + k, 0) entries.
C6_EraseKeepsEntriesBeforeCursor ==
    [][(AnsiParsing /\ AtEraseToEnd(st.text))
          => LET k == st.cursor
                 n == Len(st.result)
                 kept == IF k >= n THEN n ELSE IF k >= 0 THEN k ELSE IF n + k > 0 THEN n + k ELSE 0
             IN  /\ pc' = "parsing"
                 /\ Len(st'.result) = kept
                 /\ \A i \in 1..kept : st'.result[i] = st.result[i]]_vars

\* "a", ESC [ C, ESC [ K: the erase ran with the cursor beyond the end.
C6_Witness ==
    /\ AnsiConsumed(<< 97, 27, 91, 67, 27, 91, 75 >>)
    /\ st.cursor = 2
    /\ Len(st.result) = 1

\* res without its entries at the (0-based) indices k .. k + n - 1.
RemoveRange(res, k, n) ==
    LET lo == Min(Max(k, 0), Len(res))
        hi == Min(Max(k + n, lo), Len(res))
    IN  SubSeq(res, 1, lo) \o SubSeq(res, hi + 1, Len(res))

\* C7: ESC [ n P (n defaulting to 1) with the cursor at k removes the entries at
\* indices k .. k+n-1, shifts the later ones left and leaves those before k;
\* the buffer never grows.
C7_DeleteRemovesAtCursor ==
    [][(AnsiParsing /\ Branch(st) = "delete" /\ ~CountRaises(Match(st.text).group2))
          => /\ pc' = "parsing"
             /\ st'.result = RemoveRange(st.result, st.cursor, Count(Match(st.text).group2))
             /\ Len(st'.result) <= Len(st.result)]_vars

\* C8: from any current triple, ESC [ 0 m (or ESC [ m) sets the triple to
\* (COLOUR_WHITE, A_NORMAL, COLOUR_BLACK) and leaves the buffer as it is.
C8_SGRReset ==
    [][(AnsiParsing /\ (StartsWith(st.text, << 27, 91, 48, 109 >>)
                          \/ StartsWith(st.text, << 27, 91, 109 >>)))
          => /\ pc' = "parsing"
             /\ st'.attributes = << COLOUR_WHITE, A_NORMAL, COLOUR_BLACK >>
             /\ st'.result = st.result]_vars

\* reset("a" ESC [ 0 m, (3, A_BOLD, 4)): the reset ran on a triple that was set.
C8_Witness ==
    /\ AnsiConsumed(<< 97, 27, 91, 48, 109 >>)
    /\ attributes = << 3, A_BOLD, 4 >>
    /\ st.attributes = << COLOUR_WHITE, A_NORMAL, COLOUR_BLACK >>
    /\ Len(st.result) = 1

\* C9: ESC [ p m with p in 30..37 sets the foreground to p - 30, with p in
\* 40..47 the background to p - 40; the other two components, the buffer and
\* the cursor are unchanged.
C9_StandardColours ==
    [][\A p \in (30..37) \cup (40..47) :
          (AnsiParsing /\ StartsWith(st.text, << 27, 91 >> \o Format(p) \o << 109 >>))
             => /\ pc' = "parsing"
                /\ st'.attributes = IF p < 40
                                    THEN << p - 30, st.attributes[2], st.attributes[3] >>
                                    ELSE << st.attributes[1], st.attributes[2], p - 40 >>
                /\ st'.result = st.result
                /\ st'.cursor = st.cursor]_vars

\* reset(ESC [ 31 m ESC [ 47 m, (3, A_BOLD, 4))
C9_Witness ==
    /\ AnsiConsumed(<< 27, 91, 51, 49, 109, 27, 91, 52, 55, 109 >>)
    /\ attributes = << 3, A_BOLD, 4 >>
    /\ st.attributes = << 1, A_BOLD, 7 >>

\* C10, as claimed: when the input holds no backspace, carriage return, CSI C or
\* CSI D, the offsets of the final result never decrease, SGR and erase
\* sequences notwithstanding.
C10_OffsetsNonDecreasing ==
    (parser = "AnsiTerminalParser" /\ pc = "done"
        /\ seen \cap {"backspace", "return", "forward", "back"} = {})
        => NonDecreasing(result)

\* C10, amended: when the input holds no backspace, carriage return, CSI C or
\* CSI D, and neither an erase CSI 1 K or CSI 2 K (whose blanks carry the raw
\* offset of the erase sequence) nor a delete CSI n P with a negative n, the
\* offsets of the final result never decrease, SGR and CSI K / CSI 0 K
\* sequences notwithstanding.
C10_OffsetsNonDecreasingWithoutBlanks ==
    (parser = "AnsiTerminalParser" /\ pc = "done"
        /\ seen \cap {"backspace", "return", "forward", "back",
                      "erase1", "erase2", "delete-"} = {})
        => NonDecreasing(result)

C10_Witness ==
    /\ parser = "AnsiTerminalParser" /\ pc = "done"
    /\ seen = {"printable", "sgr", "erase0"}
    /\ Len(result) = 2
    /\ result[1].offset < result[2].offset

\* C11: an instance is reusable.  After any sequence of earlier reset, parse and
\* normalize calls (a reset that raised included), reset(text, colours) leaves
\* the stored raw text, attributes, cursor and result that the same call leaves
\* on a freshly constructed instance, and fails exactly when that one fails.
C11_ResetIsFresh ==
    (pc \in {"done", "raised"} /\ ret = NoRet)
        => \A fresh \in {ResetOn(parser, NewInstance, raw_text, attributes)} :
               /\ Instance = fresh.self
               /\ (pc = "raised") = (fresh.error # "")

\* An AnsiTerminalParser reset again after a normalize, a reset that raised and
\* a parse; the last reset left a glyph and an attribute-only record.
C11_Witness ==
    /\ parser = "AnsiTerminalParser" /\ pc = "done" /\ ret = NoRet
    /\ {"after-normalize", "after-raise", "after-reset", "parse"} \subseteq seen
    /\ raw_text = << 97, 27, 91, 51, 49, 109 >>
    /\ Len(result) = 2

\* The number of characters of text outside its colour sequences.
RECURSIVE Literals(_)
Literals(text) ==
    IF text = << >> THEN 0
    ELSE IF MatchColour(text).matched THEN Literals(MatchColour(text).rest)
    ELSE 1 + Literals(Tail(text))

\* The colour sequences that text ends with: the matches of its suffixes that
\* leave nothing after them.
FinalTokens(text) ==
    {m \in {MatchColour(SubSeq(text, k, Len(text))) : k \in 1..Len(text)} :
        m.matched /\ m.rest = << >>}

\* The indices of the attribute-only elements of res.
AttributeOnly(res) == {i \in 1..Len(res) : res[i].glyph = NoGlyph}

\* C12: after AsciimaticsParser.reset the cursor is the number of literal
\* characters of the input, which is the number of glyph elements; when the
\* input ends with a colour sequence the result ends with one attribute-only
\* element carrying the attributes that sequence sets, and it is the only one;
\* otherwise the result holds no attribute-only element.
C12_CursorAndFinalColours ==
    (parser = "AsciimaticsParser" /\ pc = "done")
        => /\ cursor = Literals(raw_text)
           /\ cursor = Len(result) - Cardinality(AttributeOnly(result))
           /\ \A m \in FinalTokens(raw_text) :
                /\ AttributeOnly(result) = {Len(result)}
                /\ result[Len(result)].attrs = ColourAttributes(m.fields)
           /\ FinalTokens(raw_text) = {} => AttributeOnly(result) = {}

\* "H${1}i${2,1}": two literals, then the colour sequence the input ends with.
C12_Witness ==
    /\ parser = "AsciimaticsParser" /\ pc = "done"
    /\ raw_text = << 72, 36, 123, 49, 125, 105, 36, 123, 50, 44, 49, 125 >>
    /\ cursor = 2
    /\ Len(result) = 3
    /\ result[3] = Rec(NoGlyph, << 2, A_BOLD, None >>, 6)

\* C13: a printable character written with the cursor of the loop at k, behind,
\* at or beyond the end of the buffer, puts the element with that character and
\* the current attributes at index k (from 0) of the buffer; every other
\* element that was there keeps its glyph and attributes; the buffer grows by
\* at most one element; the cursor becomes k + 1.
C13_PrintableWritesAtCursor ==
    [][(AnsiParsing /\ st.text[1] > 31)
          => LET k == st.cursor
             IN  /\ pc' = "parsing"
                 /\ st'.cursor = k + 1
                 /\ Len(st'.result) <= Len(st.result) + 1
                 /\ k + 1 \in 1..Len(st'.result)
                 /\ st'.result[k + 1].glyph = << st.text[1] >>
                 /\ st'.result[k + 1].attrs = st.attributes
                 /\ \A i \in 1..Len(st.result) :
                       i # k + 1 => /\ st'.result[i].glyph = st.result[i].glyph
                                    /\ st'.result[i].attrs = st.result[i].attrs]_vars

\* The attributes of the glyph that the loop of reset wrote last, from the state
\* s of the loop on; last when it writes none.
RECURSIVE LastWritten(_, _)
LastWritten(s, last) ==
    IF s.text = << >> \/ s.error # "" THEN last
    ELSE LastWritten(Dispatch(s), IF s.text[1] > 31 THEN s.attributes ELSE last)

\* The loop of AnsiTerminalParser.reset has come to its end.
AnsiAtEnd == parser = "AnsiTerminalParser" /\ pc = "parsing" /\ st.text = << >>

\* C14: the result of AnsiTerminalParser.reset holds at most one attribute-only
\* element, which can only be the last one; it is appended when, and only when,
\* the final attributes differ from the attributes of the glyph written last
\* (from the initial attributes when no glyph was written), so that an input
\* ending in a control character or an escape sequence that left the
\* attributes as they were gets none.
C14_FinalColoursOnlyIfChanged ==
    [][AnsiAtEnd
          => /\ AttributeOnly(result') \subseteq {Len(result')}
             /\ (AttributeOnly(result') # {})
                   = (st.attributes
                         # LastWritten(AnsiStart(raw_text, attributes),
                                       AnsiStart(raw_text, attributes).attributes))]_vars

\* The parameters of the SGR sequence at the head of text.
ParamsAt(text) == Split(Match(text).group2)

\* The parameters ps from the (n + 1)-th on, as the parameter field of a sequence.
After(ps, n) == Join(SubSeq(ps, n + 1, Len(ps)))

\* The loop is at an SGR sequence that starts with sel ; mode and has at least n
\* parameters.
AtSelector(sel, mode, n) ==
    /\ AnsiParsing
    /\ Branch(st) = "sgr"
    /\ Len(ParamsAt(st.text)) >= n
    /\ IntParam(ParamsAt(st.text)[1]) = sel
    /\ IntParam(ParamsAt(st.text)[2]) = mode

\* attrs as the parameters rest change it at top level (not at all when there
\* are none).
ThenParams(attrs, rest) == IF rest = << >> THEN attrs ELSE SGR(attrs, After(rest, 0))

\* C15: ESC [ 38;2;r;g;b;P m and ESC [ 48;2;r;g;b;P m change the attributes as
\* ESC [ P m does, whatever r, g and b are (and not at all when nothing follows
\* b); ESC [ 38;5;n;P m and ESC [ 48;5;n;P m write n into the foreground and the
\* background respectively, nothing else, and then change the attributes as
\* ESC [ P m does.
C15_ColourSelectors ==
    [][\A sel \in {38, 48} :
          /\ AtSelector(sel, 2, 5)
                => /\ pc' = "parsing"
                   /\ st'.attributes
                         = ThenParams(st.attributes,
                                      SubSeq(ParamsAt(st.text), 6, Len(ParamsAt(st.text))))
          /\ AtSelector(sel, 5, 3)
                => /\ pc' = "parsing"
                   /\ st'.attributes
                         = ThenParams([st.attributes EXCEPT ![IF sel = 38 THEN 1 ELSE 3] =
                                          IntParam(ParamsAt(st.text)[3])],
                                      SubSeq(ParamsAt(st.text), 4, Len(ParamsAt(st.text))))]_vars

\* reset(ESC [ 48;2;0;5;38;31 m, (3, A_BOLD, 4)): only the 31 is applied.
C15_Witness ==
    /\ AnsiConsumed(<< 27, 91, 52, 56, 59, 50, 59, 48, 59, 53, 59, 51, 56, 59, 51, 49, 109 >>)
    /\ attributes = << 3, A_BOLD, 4 >>
    /\ st.attributes = << 1, A_BOLD, 4 >>

\* C16: ESC [ 1 K with the cursor of the loop at k makes the first k elements
\* of the buffer spaces with the current attributes, and every element at an
\* index (from 0) >= k stays where it is, unchanged, for every reachable k: no
\* element at or after the cursor is lost.
C16_EraseFromStartKeepsRest ==
    [][(AnsiParsing /\ StartsWith(st.text, << 27, 91, 49, 75 >>))
          => LET k == st.cursor
             IN  /\ pc' = "parsing"
                 /\ \A i \in 1..k :
                       /\ i <= Len(st'.result)
                       /\ st'.result[i].glyph = << 32 >>
                       /\ st'.result[i].attrs = st.attributes
                 /\ \A i \in 1..Len(st.result) :
                       i - 1 >= k => /\ i <= Len(st'.result)
                                     /\ st'.result[i] = st.result[i]]_vars

\* s ends with the string suffix.
EndsWith(s, suffix) ==
    Len(s) >= Len(suffix) /\ SubSeq(s, Len(s) - Len(suffix) + 1, Len(s)) = suffix

\* AnsiTerminalParser.normalize() has returned.
AnsiNormalized == parser = "AnsiTerminalParser" /\ pc = "done" /\ ret # NoRet

\* C17: when normalize() is called with a reported cursor n > 0, the string it
\* returns ends with ESC [ n D, and AnsiTerminalParser.reset on that string,
\* with any colours, completes and reports the cursor n.
C17_CursorSurvivesNormalize ==
    (AnsiNormalized /\ cursor > 0)
        => /\ EndsWith(ret, << 27, 91 >> \o Format(cursor) \o << 68 >>)
           /\ \A colours \in Colours :
                 \A again \in {AnsiReset(ret, colours)} :
                    again.error = "" /\ again.cursor = cursor

\* reset("aa\rESC[31ma", None), normalize(): a red "a" over the first of two
\* "a", the cursor one short of the end, and the string returned
\* ESC[38;5;1m a ESC[38;5;Nonem a ESC[1D.
C17_Witness ==
    /\ AnsiNormalized
    /\ cursor = 1
    /\ Len(result) = 2
    /\ ret = << 27, 91, 51, 56, 59, 53, 59, 49, 109, 97,
                27, 91, 51, 56, 59, 53, 59, 78, 111, 110, 101, 109, 97,
                27, 91, 49, 68 >>

\* C18: every iteration of the loop of AnsiTerminalParser.reset consumes at
\* least one character of the remaining text, which strictly shrinks until it
\* is empty: one character for a printable or control character, two for an
\* escape that matches no sequence (the one that is left when the escape is the
\* last character), the whole sequence for a matched CSI sequence.
C18_EveryIterationConsumes ==
    [][AnsiParsing
          => /\ pc' = "parsing"
             /\ Len(st'.text) < Len(st.text)
             /\ Len(st.text) - Len(st'.text)
                   = IF st.text[1] # 27 THEN 1
                     ELSE IF ~Match(st.text).matched THEN Min(2, Len(st.text))
                     ELSE Match(st.text).len1
             /\ st'.text = SubSeq(st.text, Len(st.text) - Len(st'.text) + 1, Len(st.text))]_vars

\* C19: while AnsiTerminalParser.reset processes an input with no CSI C and no
\* CSI D sequence, the cursor of the loop stays between 0 and the length of the
\* buffer after every iteration (printable, backspace, carriage return, SGR, K
\* and P included), so that the cursor reported after reset lies between 0 and
\* the number of glyph elements.
C19_CursorWithinBuffer ==
    (parser = "AnsiTerminalParser" /\ seen \cap {"forward", "back"} = {})
        => /\ pc = "parsing" => (0 <= st.cursor /\ st.cursor <= Len(st.result))
           /\ (pc = "done" /\ ret = NoRet)
                 => (0 <= cursor /\ cursor <= Len(result) - Cardinality(AttributeOnly(result)))

\* reset("a" backspace ESC [ 1 K): the cursor is reported one short of the end.
C19_Witness ==
    /\ parser = "AnsiTerminalParser" /\ pc = "done" /\ ret = NoRet
    /\ seen = {"printable", "backspace", "erase1"}
    /\ cursor = 1
    /\ Len(result) = 2

\* What normalize() writes for the element i of res: the SGR sequence when its
\* attributes are not those of the element before it (of no colour at all, for
\* the first), then its glyph, if it has one.
Serialized(res, i) ==
    (IF res[i].attrs # (IF i = 1 THEN << None, None, None >> ELSE res[i - 1].attrs)
     THEN SGRChange(IF i = 1 THEN << None, None, None >> ELSE res[i - 1].attrs, res[i].attrs)
     ELSE << >>)
        \o (IF res[i].glyph # NoGlyph THEN res[i].glyph ELSE << >>)

\* The index in the string normalize() returns where what it writes for the
\* element i of res begins.
RECURSIVE SerializedAt(_, _)
SerializedAt(res, i) ==
    IF i = 1 THEN 0 ELSE SerializedAt(res, i - 1) + Len(Serialized(res, i - 1))

\* C20: normalize() called again right after normalize() returns the same
\* string and leaves the stored result (glyphs, attributes, offsets), raw text
\* and cursor as the first call left them; and the offset that normalize()
\* gives each element is the index in the returned string where what it wrote
\* for that element (its SGR sequence, if any, then its glyph) begins.
C20_NormalizeIdempotent ==
    AnsiNormalized
        => /\ \A again \in {AnsiNormalize(result, cursor)} :
                 again.new_value = ret /\ again.result = result
           /\ raw_text = ret
           /\ \A i \in 1..Len(result) :
                 /\ result[i].offset = SerializedAt(result, i)
                 /\ SubSeq(ret, result[i].offset + 1,
                           result[i].offset + Len(Serialized(result, i)))
                       = Serialized(result, i)

====
